---- MODULE Spec2Model ----
(***************************************************************************)
(* Stripe webhook reconciliation of sandaruDevr/stripe5.                   *)
(*                                                                         *)
(* The repository holds three versions of the same Express server:         *)
(*   src/src/index.ts, src/unnamed/part_000 and src/unnamed/part_001.      *)
(* The variable `build` says which of them is running.  The Realtime       *)
(* Database subtree /users is the variable `users`; every webhook          *)
(* delivery is a task that runs the async handler one store operation at   *)
(* a time (query, read, update/set), then answers.                         *)
(***************************************************************************)
EXTENDS Integers, Sequences, FiniteSets, TLC

VARIABLES build, users, tasks, checkouts, customers

vars == <<build, users, tasks, checkouts, customers>>

(* ------------------------------ bounds -------------------------------- *)
NumTasks == 2
MaxPeriodEnd == 2
MaxAmount == 2
NumCheckouts == 2
MaxCustomers == 2

Tasks == 1..NumTasks

Checkouts == 1..NumCheckouts

(* --------------------------- JSON values ------------------------------ *)
\* A child that does not exist in the database (JSON null).
NULL == "null"
\* What JavaScript yields when a missing property of an object is read.
UNDEFINED == "undefined"

Builds == {"index_ts", "part_000", "part_001"}

\* Keys of /users in the order Object.keys() lists them.
UserKeys == <<"u1", "u2", "u3">>
UserIds == {UserKeys[i] : i \in 1..Len(UserKeys)}

InvoiceIds == {"in_1", "in_2"}

\* The eight profile fields the handlers copy by name.
ProfileFields ==
  {"uid", "displayName", "email", "createdAt", "lastLoginAt",
   "summaryCount", "dailySummaryCount", "dailySummaryResetTime"}

\* "extra" stands for any further child of a user record.
ScalarFields == ProfileFields \cup {"plan", "stripeCustomerId", "extra"}

AllFields == ScalarFields \cup {"subscription", "invoices"}

NoInvoices == [i \in InvoiceIds |-> {}]

\* A user record as the user-management side creates it: plan free, no
\* subscription, no invoices.  subscription and each invoices[id] hold a
\* set with zero elements (null) or one element (the object).
NewUser(uid, displayName, customerId) ==
  [uid |-> uid, displayName |-> displayName, email |-> "mail",
   createdAt |-> "t0", lastLoginAt |-> "t1", summaryCount |-> "0",
   dailySummaryCount |-> "0", dailySummaryResetTime |-> "t2",
   plan |-> "free", stripeCustomerId |-> customerId, extra |-> "x",
   subscription |-> {}, invoices |-> NoInvoices]

\* snapshot.val() of a path with no data.
NullRecord ==
  [f \in AllFields |->
     IF f = "subscription" THEN {}
     ELSE IF f = "invoices" THEN NoInvoices ELSE NULL]

(* ------------------------------ events -------------------------------- *)
SubscriptionTypes ==
  {"customer.subscription.created", "customer.subscription.updated"}

Statuses == {"active", "trialing", "canceled"}

Event(type, customer, id, status, items, periodEnd, reason, amount) ==
  [type |-> type, customer |-> customer, id |-> id, status |-> status,
   items |-> items, current_period_end |-> periodEnd,
   cancel_at_period_end |-> (status = "canceled"),
   trial_end |-> IF status = "trialing" THEN {periodEnd} ELSE {},
   billing_reason |-> reason, amount_paid |-> amount]

NoEvent == Event("none", NULL, NULL, NULL, <<>>, 0, NULL, 0)

SubscriptionEvents ==
  {Event("customer.subscription.updated", "cus_1", "sub_1", s,
         <<"price_pro">>, p, NULL, 0) :
     s \in Statuses, p \in 1..MaxPeriodEnd}
  \cup
  {Event("customer.subscription.created", "cus_1", "sub_1", "trialing",
         <<"price_pro">>, 1, NULL, 0),
   Event("customer.subscription.updated", "cus_1", "sub_1", "active",
         <<>>, MaxPeriodEnd, NULL, 0),
   Event("customer.subscription.updated", "cus_2", "sub_2", "active",
         <<"price_pro">>, MaxPeriodEnd, NULL, 0),
   Event("customer.subscription.updated", "cus_9", "sub_9", "active",
         <<"price_pro">>, MaxPeriodEnd, NULL, 0)}

DeletedEvents ==
  {Event("customer.subscription.deleted", c, "sub_1", "canceled",
         <<"price_pro">>, 1, NULL, 0) : c \in {"cus_1", "cus_2", "cus_9"}}

InvoicePaidEvents ==
  {Event("invoice.paid", "cus_1", "in_1", "paid", <<>>, 0,
         "subscription_cycle", a) : a \in 1..MaxAmount}
  \cup
  {Event("invoice.paid", "cus_1", "in_2", "paid", <<>>, 0,
         "subscription_cycle", 1),
   Event("invoice.paid", "cus_9", "in_1", "paid", <<>>, 0,
         "subscription_cycle", 1)}

InvoiceFailedEvents ==
  {Event("invoice.payment_failed", "cus_1", "in_1", "open", <<>>, 0,
         "subscription_create", 0),
   Event("invoice.payment_failed", "cus_1", "in_1", "open", <<>>, 0,
         "subscription_cycle", 0),
   Event("invoice.payment_failed", "cus_9", "in_1", "open", <<>>, 0,
         "subscription_create", 0)}

OtherEvents ==
  {Event("charge.succeeded", "cus_1", "ch_1", "succeeded", <<>>, 0, NULL, 1)}

Events ==
  SubscriptionEvents \cup DeletedEvents \cup InvoicePaidEvents
    \cup InvoiceFailedEvents \cup OtherEvents

\* A delivery is a payload and whether constructEvent accepts its
\* stripe-signature header.
Deliveries ==
  {[ev |-> e, sig |-> TRUE] : e \in Events}
  \cup
  {[ev |-> e, sig |-> FALSE] :
     e \in {x \in Events : x.customer = "cus_1" /\ x.current_period_end # 1
                             /\ x.amount_paid < 2 /\ x.items # <<>>
                             /\ x.status \in {"active", "succeeded"}}}

(* ----------------------- the Express pipeline -------------------------- *)
\* index.ts and part_001 install express.json() for every route before the
\* webhook route is registered; part_000 installs it after the route.
jsonBeforeWebhook(b) == b \in {"index_ts", "part_001"}

\* What req.body is when the route's handler runs.  express.raw() leaves a
\* body that an earlier parser has already read (req._body) as it is.
reqBody(b) == IF jsonBeforeWebhook(b) THEN "parsed" ELSE "raw"

\* A variant that parses the payload without checking its signature.
constructEventUnchecked(body, sig) == TRUE

\* stripe.webhooks.constructEvent(req.body, sig, secret) is a library call:
\* it returns the event (TRUE) or throws (FALSE).  Which of the two happens
\* is an input of the delivery (`sig`); the form of the body it was handed
\* is kept in the task.
constructEvent(body, sig) == sig

\* A variant whose last case label also catches every other type.
caseOfWithDefault(b, type) ==
  IF type \in SubscriptionTypes THEN "upsert"
  ELSE IF b = "part_000" /\ type = "invoice.paid" THEN "paid"
  ELSE IF b = "part_000" /\ type = "invoice.payment_failed" THEN "failed"
  ELSE "deleted"

\* The case of switch (event.type) that a verified event takes.
caseOf(b, type) ==
  IF type \in SubscriptionTypes THEN "upsert"
  ELSE IF type = "customer.subscription.deleted" THEN "deleted"
  ELSE IF b = "part_000" /\ type = "invoice.paid" THEN "paid"
  ELSE IF b = "part_000" /\ type = "invoice.payment_failed" THEN "failed"
  ELSE "unhandled"

\* The event types that have a case label in the switch of version b.
HandledTypes(b) ==
  SubscriptionTypes \cup {"customer.subscription.deleted"}
    \cup (IF b = "part_000" THEN {"invoice.paid", "invoice.payment_failed"}
          ELSE {})

(* ----------------------------- responses ------------------------------ *)
NoResponse == [status |-> 0, received |-> FALSE, code |-> "", message |-> ""]

\* res.json({ received: true })
Received == [status |-> 200, received |-> TRUE, code |-> "", message |-> ""]

SignatureMessage == "Webhook signature verification failed"

\* The catch block: every error thrown inside the try, whatever threw it.
catchResponse(b, errMessage) ==
  [status |-> 400, received |-> FALSE, code |-> "WEBHOOK_SIGNATURE_ERROR",
   message |-> IF b = "part_000" THEN errMessage ELSE SignatureMessage]

(* ------------------------- the handler's values ----------------------- *)
\* plan: subscription.status === 'active' [|| ... === 'trialing'] ? 'pro' : 'free'
planFor(b, status) ==
  IF b = "part_000"
  THEN (IF status = "active" \/ status = "trialing" THEN "pro" ELSE "free")
  ELSE (IF status = "active" THEN "pro" ELSE "free")

\* The subscription object literal of the update.
subscriptionOf(ev) ==
  [subscriptionId |-> ev.id, priceId |-> ev.items[1], status |-> ev.status,
   currentPeriodEnd |-> ev.current_period_end,
   cancelAtPeriodEnd |-> ev.cancel_at_period_end, trialEnd |-> ev.trial_end]

invoiceDataOf(ev) ==
  [status |-> ev.status, currency |-> "usd", amountPaid |-> ev.amount_paid,
   hostedInvoiceUrl |-> "url", invoicePdf |-> "pdf", created |-> 1]

\* currentUserData.f for a scalar child f.
prop(obj, f) == IF obj[f] = NULL THEN UNDEFINED ELSE obj[f]

\* The own keys of snapshot.val(): the children that exist.
keysOf(obj) ==
  {f \in ScalarFields : obj[f] # NULL}
    \cup (IF obj.subscription # {} THEN {"subscription"} ELSE {})
    \cup (IF \E i \in InvoiceIds : obj.invoices[i] # {} THEN {"invoices"} ELSE {})

\* A variant that never takes 'pro' away from a record that has it.
upsertValuesSticky(b, ev, cur) ==
  [keys |-> ProfileFields \cup {"plan", "stripeCustomerId", "subscription"},
   val |-> [f \in AllFields |->
              IF f \in ProfileFields THEN prop(cur, f)
              ELSE IF f = "plan"
              THEN (IF cur.plan = "pro" THEN "pro" ELSE planFor(b, ev.status))
              ELSE IF f = "stripeCustomerId" THEN ev.customer
              ELSE IF f = "subscription" THEN {subscriptionOf(ev)}
              ELSE cur[f]]]

\* An argument of update(): the keys it names and the value of each.
\* index.ts and part_000 copy the profile fields by name; part_001 spreads.
upsertValues(b, ev, cur) ==
  IF b = "part_001"
  THEN [keys |-> keysOf(cur) \cup {"plan", "subscription"},
        val |-> [cur EXCEPT !.plan = planFor(b, ev.status),
                            !.subscription = {subscriptionOf(ev)}]]
  ELSE [keys |-> ProfileFields \cup {"plan", "stripeCustomerId", "subscription"},
        val |-> [f \in AllFields |->
                   IF f \in ProfileFields THEN prop(cur, f)
                   ELSE IF f = "plan" THEN planFor(b, ev.status)
                   ELSE IF f = "stripeCustomerId" THEN ev.customer
                   ELSE IF f = "subscription" THEN {subscriptionOf(ev)}
                   ELSE cur[f]]]

\* A variant that clears the subscription and leaves plan as it was.
deletedValuesKeepingPlan(b, cur) ==
  [keys |-> ProfileFields \cup {"subscription"},
   val |-> [f \in AllFields |->
              IF f \in ProfileFields THEN prop(cur, f)
              ELSE IF f = "subscription" THEN {}
              ELSE cur[f]]]

deletedValues(b, cur) ==
  IF b = "part_001"
  THEN [keys |-> keysOf(cur) \cup {"plan", "subscription"},
        val |-> [cur EXCEPT !.plan = "free", !.subscription = {}]]
  ELSE [keys |-> ProfileFields \cup {"plan", "subscription"},
        val |-> [f \in AllFields |->
                   IF f \in ProfileFields THEN prop(cur, f)
                   ELSE IF f = "plan" THEN "free"
                   ELSE IF f = "subscription" THEN {}
                   ELSE cur[f]]]

paymentFailedValues(cur) ==
  [keys |-> keysOf(cur) \cup {"plan", "subscription"},
   val |-> [cur EXCEPT !.plan = "free", !.subscription = {}]]

valuesFor(b, ev, cur) ==
  IF caseOf(b, ev.type) = "upsert" THEN upsertValues(b, ev, cur)
  ELSE IF caseOf(b, ev.type) = "deleted" THEN deletedValues(b, cur)
  ELSE paymentFailedValues(cur)

\* The update never reaches the database when building its argument throws
\* (subscription.items.data[0] is undefined) or when the database client
\* rejects the argument (a value is undefined).
literalThrows(b, ev) == caseOf(b, ev.type) = "upsert" /\ ev.items = <<>>

containsUndefined(values) ==
  \E f \in values.keys \cap ScalarFields : values.val[f] = UNDEFINED

\* A blind overwrite: the record becomes exactly the values given.
setRecord(rec, values) ==
  [f \in AllFields |-> IF f \in values.keys THEN values.val[f] ELSE NullRecord[f]]

\* ref.update(values): each named child is replaced, the others are kept.
update(rec, values) ==
  [f \in AllFields |-> IF f \in values.keys THEN values.val[f] ELSE rec[f]]

\* usersRef.orderByChild('stripeCustomerId').equalTo(customerId)
matching(store, customerId) ==
  {u \in UserIds : store[u].stripeCustomerId = customerId}

\* Object.keys(snapshot.val())[0]
firstKey(matches) ==
  UserKeys[CHOOSE i \in 1..Len(UserKeys) :
             /\ UserKeys[i] \in matches
             /\ \A j \in 1..(i - 1) : UserKeys[j] \notin matches]

(* --------------------------- handler steps ---------------------------- *)
\* A task is one run of the async handler of POST /webhooks/stripe.
\* pc is the await it is stopped at; ops lists the store operations it has
\* issued so far ("failed" for one that the database rejected); sent
\* counts the responses written to res.
IdleTask ==
  [pc |-> "idle", ev |-> NoEvent, sig |-> FALSE, body |-> "none",
   userId |-> NULL, currentUserData |-> NullRecord, res |-> NoResponse,
   sent |-> 0, ops |-> <<>>]

\* An error that leaves the handler without passing through a catch block.
thrownUncaught(b, store, task, errMessage) ==
  [users |-> store, task |-> [task EXCEPT !.pc = "done"]]

\* An error thrown inside the try: the catch block answers.
thrown(b, store, task, errMessage) ==
  [users |-> store,
   task |-> [task EXCEPT !.pc = "done", !.res = catchResponse(b, errMessage),
                         !.sent = @ + 1]]

\* The switch is left without a store write: res.json({ received: true }).
answered(store, task) ==
  [users |-> store,
   task |-> [task EXCEPT !.pc = "done", !.res = Received, !.sent = @ + 1]]

\* A variant that downgrades on every failed payment.
anyBillingReason(ev) == TRUE

\* if (invoice.billing_reason === 'subscription_create')
isTrialFailure(ev) == ev.billing_reason = "subscription_create"

\* From the request to the first await: constructEvent, then the switch.
receive(b, store, task, ev, sig) ==
  LET t == [task EXCEPT !.ev = ev, !.sig = sig, !.body = reqBody(b)]
  IN IF ~constructEvent(t.body, sig)
     THEN thrown(b, store, t, "No signatures found matching the expected signature")
     ELSE IF caseOf(b, ev.type) = "unhandled" THEN answered(store, t)
     ELSE IF caseOf(b, ev.type) = "failed" /\ ~isTrialFailure(ev)
     THEN answered(store, t)
     ELSE [users |-> store, task |-> [t EXCEPT !.pc = "lookup"]]

\* A variant that treats every lookup miss as an error.
lookupStrict(b, store, task) ==
  LET t == [task EXCEPT !.ops = Append(@, "query")]
      snapshot == matching(store, task.ev.customer)
  IN IF snapshot = {}
     THEN thrown(b, store, t, "No user found for customer")
     ELSE [users |-> store,
           task |-> [t EXCEPT !.userId = firstKey(snapshot),
                              !.pc = IF caseOf(b, task.ev.type) = "paid"
                                     THEN "set1" ELSE "read"]]

\* The query by stripeCustomerId and what follows it up to the next await.
lookup(b, store, task) ==
  LET t == [task EXCEPT !.ops = Append(@, "query")]
      snapshot == matching(store, task.ev.customer)
  IN IF snapshot = {}
     THEN (IF caseOf(b, task.ev.type) = "upsert"
           THEN thrown(b, store, t, "No user found for customer")
           ELSE answered(store, t))
     ELSE [users |-> store,
           task |-> [t EXCEPT !.userId = firstKey(snapshot),
                              !.pc = IF caseOf(b, task.ev.type) = "paid"
                                     THEN "set1" ELSE "read"]]

\* const currentUserData = (await userRef.once('value')).val()
read(b, store, task) ==
  [users |-> store,
   task |-> [task EXCEPT !.currentUserData = store[task.userId],
                         !.ops = Append(@, "read"), !.pc = "update"]]

\* A variant that starts the update and goes on without awaiting it.
updateUserDetached(b, store, task) ==
  [users |-> store, task |-> [task EXCEPT !.pc = "respond"]]

\* A variant that writes to every record the query returned.
updateUserAll(b, store, task) ==
  LET values == valuesFor(b, task.ev, task.currentUserData)
  IN IF literalThrows(b, task.ev)
     THEN thrown(b, store, task, "Cannot read properties of undefined")
     ELSE IF containsUndefined(values)
     THEN thrown(b, store, task, "update failed: values contain undefined")
     ELSE [users |-> [u \in UserIds |->
                        IF store[u].stripeCustomerId = task.ev.customer
                        THEN update(store[u], values) ELSE store[u]],
           task |-> [task EXCEPT !.ops = Append(@, "update"), !.pc = "respond"]]

\* await userRef.update({...})
updateUser(b, store, task) ==
  LET values == valuesFor(b, task.ev, task.currentUserData)
  IN IF literalThrows(b, task.ev)
     THEN thrown(b, store, task, "Cannot read properties of undefined")
     ELSE IF containsUndefined(values)
     THEN thrown(b, store, task, "update failed: values contain undefined")
     ELSE [users |-> [store EXCEPT ![task.userId] = update(@, values)],
           task |-> [task EXCEPT !.ops = Append(@, "update"), !.pc = "respond"]]

\* An invoice write that adds to what is stored instead of replacing it.
setInvoiceAdding(b, store, task) ==
  LET old == store[task.userId].invoices[task.ev.id]
      sum == IF old = {} THEN task.ev.amount_paid
             ELSE (CHOOSE x \in old : TRUE).amountPaid + task.ev.amount_paid
  IN [users |-> [store EXCEPT ![task.userId].invoices[task.ev.id] =
                    {[invoiceDataOf(task.ev) EXCEPT !.amountPaid = sum]}],
      task |-> [task EXCEPT !.ops = Append(@, "set"),
                            !.pc = IF task.pc = "set1" THEN "set2" ELSE "respond"]]

\* An invoice write at the invoices node instead of at the invoice's child.
setInvoicesNode(b, store, task) ==
  [users |-> [store EXCEPT ![task.userId].invoices =
                 [i \in InvoiceIds |->
                    IF i = task.ev.id THEN {invoiceDataOf(task.ev)} ELSE {}]],
   task |-> [task EXCEPT !.ops = Append(@, "set"),
                         !.pc = IF task.pc = "set1" THEN "set2" ELSE "respond"]]

\* await userRef.child('invoices').child(invoice.id).set(invoiceData):
\* issued twice, once bare and once inside a try.
setInvoice(b, store, task) ==
  [users |-> [store EXCEPT ![task.userId].invoices[task.ev.id] =
                 {invoiceDataOf(task.ev)}],
   task |-> [task EXCEPT !.ops = Append(@, "set"),
                         !.pc = IF task.pc = "set1" THEN "set2" ELSE "respond"]]

\* break; res.json({ received: true })
respond(b, store, task) == answered(store, task)

\* The store operation the task is waiting for is rejected.  The second
\* set of an invoice sits in a try of its own, whose catch only logs.
storeFails(b, store, task) ==
  LET t == [task EXCEPT !.ops = Append(@, "failed")]
  IN IF task.pc = "set2"
     THEN [users |-> store, task |-> [t EXCEPT !.pc = "respond"]]
     ELSE thrown(b, store, t, "store unavailable")

\* One step of a task that has been received and has not answered.
stepOf(b, store, task) ==
  IF task.pc = "lookup" THEN lookup(b, store, task)
  ELSE IF task.pc = "read" THEN read(b, store, task)
  ELSE IF task.pc = "update" THEN updateUser(b, store, task)
  ELSE IF task.pc \in {"set1", "set2"} THEN setInvoice(b, store, task)
  ELSE IF task.pc = "respond" THEN respond(b, store, task)
  ELSE [users |-> store, task |-> task]

RECURSIVE runFrom(_, _)
runFrom(b, r) ==
  IF r.task.pc = "done" THEN r
  ELSE runFrom(b, stepOf(b, r.users, r.task))

\* The whole handler on one delivery with nothing else running.
handle(b, store, d) == runFrom(b, receive(b, store, IdleTask, d.ev, d.sig))

(* ------------------------- checkout sessions --------------------------- *)
\* A run of the handler of POST /api/stripe/create-checkout-session.
IdleCheckout ==
  [pc |-> "idle", userId |-> NULL, customerId |-> NULL, status |-> 0]

\* A provider that hands out one id again and again.
customerIdReused(n) == "cus_n1"

\* customer.id of the n-th customer stripe.customers.create() makes.
customerIdOf(n) == "cus_n" \o ToString(n)

\* const snapshot = await userRef.once('value') and the two ifs after it.
checkoutRead(store, c) ==
  IF store[c.userId] = NullRecord
  THEN [c EXCEPT !.pc = "done", !.status = 404]
  ELSE IF store[c.userId].stripeCustomerId = NULL
  THEN [c EXCEPT !.pc = "create"]
  ELSE [c EXCEPT !.customerId = store[c.userId].stripeCustomerId,
                 !.pc = "session"]

\* The events Stripe sends about customer c once a checkout has begun.
CustomerEvents(c) ==
  {Event("customer.subscription.created", c, "sub_3", "trialing",
         <<"price_pro">>, 1, NULL, 0),
   Event("invoice.payment_failed", c, "in_1", "open", <<>>, 0,
         "subscription_create", 0)}

(* ------------------------------ actions ------------------------------- *)
\* u3 is an id under which /users holds nothing.
Init ==
  /\ build \in Builds
  /\ \E dn \in {"Ann", NULL}, c2 \in {"cus_2", NULL} :
       users = [u \in UserIds |->
                  IF u = "u1" THEN NewUser("u1", dn, "cus_1")
                  ELSE IF u = "u2" THEN NewUser("u2", "Bob", c2)
                  ELSE NullRecord]
  /\ tasks = [t \in Tasks |-> IdleTask]
  /\ checkouts = [c \in Checkouts |-> IdleCheckout]
  /\ customers = <<>>

Apply(t, r) ==
  /\ users' = r.users
  /\ tasks' = [tasks EXCEPT ![t] = r.task]
  /\ UNCHANGED <<build, checkouts, customers>>

\* Deliveries are handled one after the other, each in the first slot.
Receive(t) ==
  /\ \A o \in Tasks : tasks[o].pc = "idle" /\ t <= o
  /\ \E d \in Deliveries : Apply(t, receive(build, users, tasks[t], d.ev, d.sig))

Lookup(t) ==
  /\ tasks[t].pc = "lookup"
  /\ Apply(t, lookup(build, users, tasks[t]))

Read(t) ==
  /\ tasks[t].pc = "read"
  /\ Apply(t, read(build, users, tasks[t]))

UpdateUser(t) ==
  /\ tasks[t].pc = "update"
  /\ Apply(t, updateUser(build, users, tasks[t]))

SetInvoice(t) ==
  /\ tasks[t].pc \in {"set1", "set2"}
  /\ Apply(t, setInvoice(build, users, tasks[t]))

Respond(t) ==
  /\ tasks[t].pc = "respond"
  /\ Apply(t, respond(build, users, tasks[t]))

\* The request is over; the task slot is free again.
Finish(t) ==
  /\ tasks[t].pc = "done"
  /\ tasks' = [tasks EXCEPT ![t] = IdleTask]
  /\ UNCHANGED <<build, users, checkouts, customers>>

Next ==
  \E t \in Tasks :
    \/ Receive(t)
    \/ Lookup(t)
    \/ Read(t)
    \/ UpdateUser(t)
    \/ SetInvoice(t)
    \/ Respond(t)
    \/ Finish(t)

Spec == Init /\ [][Next]_vars

(* --------------- a store where one customer id occurs twice ----------- *)
\* The database does not keep stripeCustomerId unique: here the records of
\* u1 and u2 both hold cus_1 when the server starts.
InitShared ==
  /\ build \in Builds
  /\ \E dn \in {"Ann", NULL} :
       users = [u \in UserIds |->
                  IF u = "u1" THEN NewUser("u1", dn, "cus_1")
                  ELSE IF u = "u2" THEN NewUser("u2", "Bob", "cus_1")
                  ELSE NullRecord]
  /\ tasks = [t \in Tasks |-> IdleTask]
  /\ checkouts = [c \in Checkouts |-> IdleCheckout]
  /\ customers = <<>>

SpecShared == InitShared /\ [][Next]_vars

(* -------------------- the database may reject -------------------------- *)
StoreFails(t) ==
  /\ tasks[t].pc \in {"lookup", "read", "update", "set1", "set2"}
  /\ Apply(t, storeFails(build, users, tasks[t]))

\* What a task does once its pending promise has settled.
Step(t) ==
  \/ Lookup(t)
  \/ Read(t)
  \/ UpdateUser(t)
  \/ SetInvoice(t)
  \/ Respond(t)
  \/ StoreFails(t)

NextFail ==
  \E t \in Tasks :
    \/ Receive(t)
    \/ Step(t)
    \/ Finish(t)

\* Every promise the handler awaits settles, and the event loop then runs
\* the handler's continuation.
SpecFair ==
  /\ Init
  /\ [][NextFail]_vars
  /\ \A t \in Tasks : WF_vars(Step(t))

(* ----------------- deliveries handled concurrently -------------------- *)
\* The handler is async: while one delivery waits for the database, the
\* server starts on the next.  The deliveries tried here are verified and
\* all concern customer cus_1.
ConcDeliveries ==
  {d \in Deliveries :
     /\ d.sig /\ d.ev.customer = "cus_1"
     /\ d.ev.type \in HandledTypes("part_000")
     /\ d.ev.amount_paid <= 1
     /\ d.ev.billing_reason # "subscription_cycle" \/ d.ev.type = "invoice.paid"
     /\ d.ev.type \in SubscriptionTypes =>
          /\ d.ev.items # <<>> /\ d.ev.status # "canceled"
          /\ d.ev.current_period_end = MaxPeriodEnd}

ReceiveConc(t) ==
  /\ tasks[t].pc = "idle"
  /\ \E d \in ConcDeliveries :
       Apply(t, receive(build, users, tasks[t], d.ev, d.sig))

\* The user who is signed in while the webhooks arrive.
SignedIn == {UserKeys[1]}

\* The user-management side records a login and a summary on the user's
\* record while webhooks are being handled.
UserActivity(u) ==
  /\ users[u] # NullRecord
  /\ users[u].summaryCount = "0"
  /\ users' = [users EXCEPT ![u].summaryCount = "1", ![u].lastLoginAt = "t3"]
  /\ UNCHANGED <<build, tasks, checkouts, customers>>

NextConc ==
  \/ \E t \in Tasks :
       \/ ReceiveConc(t)
       \/ Lookup(t)
       \/ Read(t)
       \/ UpdateUser(t)
       \/ SetInvoice(t)
       \/ Respond(t)
       \/ Finish(t)
  \/ \E u \in SignedIn : UserActivity(u)

SpecConc == Init /\ [][NextConc]_vars

(* ------------- checkout sessions next to webhook handlers ------------- *)
\* Two users who have signed up and have not bought anything yet.
InitCheckout ==
  /\ build \in Builds
  /\ users = [u \in UserIds |->
                IF u = "u1" THEN NewUser("u1", "Ann", NULL)
                ELSE IF u = "u2" THEN NewUser("u2", "Bob", NULL)
                ELSE NullRecord]
  /\ tasks = [t \in Tasks |-> IdleTask]
  /\ checkouts = [c \in Checkouts |-> IdleCheckout]
  /\ customers = <<>>

ApplyCheckout(c, r) ==
  /\ checkouts' = [checkouts EXCEPT ![c] = r]
  /\ UNCHANGED <<build, tasks>>

\* const { userId, returnUrl } = req.body.  A request takes the first free
\* slot.
CheckoutReceive(c) ==
  /\ checkouts[c].pc = "idle"
  /\ \A o \in 1..(c - 1) : checkouts[o].pc # "idle"
  /\ \E u \in UserIds :
       ApplyCheckout(c, [IdleCheckout EXCEPT !.pc = "read", !.userId = u])
  /\ UNCHANGED <<users, customers>>

CheckoutRead(c) ==
  /\ checkouts[c].pc = "read"
  /\ ApplyCheckout(c, checkoutRead(users, checkouts[c]))
  /\ UNCHANGED <<users, customers>>

\* const customer = await stripe.customers.create({metadata: {userId}, ...})
CustomersCreate(c) ==
  /\ checkouts[c].pc = "create"
  /\ Len(customers) < MaxCustomers
  /\ customers' = Append(customers, checkouts[c].userId)
  /\ ApplyCheckout(c, [checkouts[c] EXCEPT
                         !.customerId = customerIdOf(Len(customers) + 1),
                         !.pc = "update"])
  /\ UNCHANGED users

\* await userRef.update({ stripeCustomerId: customerId })
CheckoutUpdate(c) ==
  /\ checkouts[c].pc = "update"
  /\ users' = [users EXCEPT ![checkouts[c].userId] =
                 update(@, [keys |-> {"stripeCustomerId"},
                            val |-> [f \in AllFields |-> checkouts[c].customerId]])]
  /\ ApplyCheckout(c, [checkouts[c] EXCEPT !.pc = "session"])
  /\ UNCHANGED customers

\* await stripe.checkout.sessions.create({customer: customerId, ...})
SessionsCreate(c) ==
  /\ checkouts[c].pc = "session"
  /\ ApplyCheckout(c, [checkouts[c] EXCEPT !.pc = "done", !.status = 200])
  /\ UNCHANGED <<users, customers>>

\* An await of the handler is rejected: the catch answers 500.
CheckoutFails(c) ==
  /\ checkouts[c].pc \in {"read", "create", "update", "session"}
  /\ ApplyCheckout(c, [checkouts[c] EXCEPT !.pc = "done", !.status = 500])
  /\ UNCHANGED <<users, customers>>

CheckoutFinish(c) ==
  /\ checkouts[c].pc = "done"
  /\ ApplyCheckout(c, IdleCheckout)
  /\ UNCHANGED <<users, customers>>

\* Stripe delivers an event about a customer it has created; here one
\* delivery is in flight at a time, next to the checkout requests.
ReceiveFor(t) ==
  /\ \A o \in Tasks : tasks[o].pc = "idle" /\ t <= o
  /\ \E n \in 1..Len(customers) : \E ev \in CustomerEvents(customerIdOf(n)) :
       Apply(t, receive(build, users, tasks[t], ev, TRUE))

NextCheckout ==
  \/ \E c \in Checkouts :
       \/ CheckoutReceive(c)
       \/ CheckoutRead(c)
       \/ CustomersCreate(c)
       \/ CheckoutUpdate(c)
       \/ SessionsCreate(c)
       \/ CheckoutFails(c)
       \/ CheckoutFinish(c)
  \/ \E t \in Tasks :
       \/ ReceiveFor(t)
       \/ Lookup(t)
       \/ Read(t)
       \/ UpdateUser(t)
       \/ Respond(t)
       \/ Finish(t)

SpecCheckout == InitCheckout /\ [][NextCheckout]_vars

(* ------------------------------ claims -------------------------------- *)
Has(seq, x) == \E i \in 1..Len(seq) : seq[i] = x

\* The kind of the task's event, by its type alone.
IsKind(t, types) ==
  tasks[t].ev.type \in types \cap HandledTypes(build)

DeletedType == {"customer.subscription.deleted"}

PaidType == {"invoice.paid"}

FailedType == {"invoice.payment_failed"}

deliveryOf(t) == [ev |-> tasks[t].ev, sig |-> tasks[t].sig]

\* The task's update has reached the database and nothing has run since.
Applied(t) == tasks[t].pc \in {"respond", "done"} /\ Has(tasks[t].ops, "update")

ProStatuses == {"active", "trialing"}

\* The fields a webhook event is meant to change.
BillingFields == {"plan", "subscription", "invoices"}

\* C1: after the handler has applied a subscription created/updated event
\* to the matched record, the record's plan is 'pro' exactly when the
\* event's status is 'active' or 'trialing', and 'free' otherwise.
C1_PlanDerivation ==
  \A t \in Tasks :
    IsKind(t, SubscriptionTypes) /\ Applied(t) =>
      users[tasks[t].userId].plan =
        IF tasks[t].ev.status \in ProStatuses THEN "pro" ELSE "free"

\* C2: handling a delivery that has just been handled once more leaves the
\* store as the first handling left it, and from every reachable store
\* handling any delivery twice gives the store that handling it once gives.
C2_Idempotent ==
  /\ \A t \in Tasks :
       tasks[t].pc = "done" => handle(build, users, deliveryOf(t)).users = users
  /\ \A d \in Deliveries :
       handle(build, handle(build, users, d).users, d).users
         = handle(build, users, d).users

\* C2 witness: a delivery that changed the matched record has been handled,
\* and handling it again changes nothing.
C2_Witness ==
  \E t \in Tasks :
    /\ tasks[t].pc = "done" /\ tasks[t].res = Received
    /\ tasks[t].userId # NULL
    /\ Has(tasks[t].ops, "update")
    /\ users[tasks[t].userId] # tasks[t].currentUserData
    /\ handle(build, users, deliveryOf(t)).users = users

\* C3: with deliveries handled one at a time, no step changes any field of
\* any user record other than plan, subscription and invoices.
C3_FieldsPreserved ==
  [][\A u \in UserIds : \A f \in AllFields \ BillingFields :
       users'[u][f] = users[u][f]]_vars

\* C3 witness: an update that names the profile fields one by one has
\* changed a record that also holds a field the update does not name.
C3_Witness ==
  \E t \in Tasks :
    /\ Applied(t)
    /\ build # "part_001"
    /\ IsKind(t, SubscriptionTypes \cup DeletedType)
    /\ users[tasks[t].userId] # tasks[t].currentUserData
    /\ users[tasks[t].userId].extra = "x"
    /\ users[tasks[t].userId].stripeCustomerId = tasks[t].ev.customer

\* C4: when a subscription deleted event and then a stale created/updated
\* event (status active or trialing, currentPeriodEnd older than the one
\* stored) are handled for the same customer, the record ends with plan
\* 'pro' and the stale event's subscription.
C4_LastWriteWins ==
  \A del \in DeletedEvents : \A ups \in SubscriptionEvents :
    LET found == matching(users, ups.customer)
        u == firstKey(found)
        r1 == handle(build, users, [ev |-> del, sig |-> TRUE])
        r2 == handle(build, r1.users, [ev |-> ups, sig |-> TRUE])
    IN (/\ del.customer = ups.customer
        /\ ups.status \in ProStatuses
        /\ found # {}
        /\ \E old \in users[u].subscription :
             ups.current_period_end < old.currentPeriodEnd
        /\ r1.task.res = Received
        /\ r2.task.res = Received)
       => /\ r2.users[u].plan = "pro"
          /\ r2.users[u].subscription = {subscriptionOf(ups)}

\* C5: a verified event whose type has no case in the switch issues no
\* store operation, leaves the store as it is and is answered
\* {received: true}.
C5_UnhandledPassthrough ==
  /\ \A t \in Tasks :
       (/\ tasks[t].pc # "idle" /\ tasks[t].sig
        /\ tasks[t].ev.type \notin HandledTypes(build))
         => /\ tasks[t].ops = <<>>
            /\ tasks[t].pc = "done"
            /\ tasks[t].res = Received
  /\ \A d \in Deliveries :
       (d.sig /\ d.ev.type \notin HandledTypes(build))
         => /\ handle(build, users, d).users = users
            /\ handle(build, users, d).task.ops = <<>>
            /\ handle(build, users, d).task.res = Received

\* C5 witness: an event of an unhandled type for a customer that a user
\* record holds has been answered.
C5_Witness ==
  \E t \in Tasks :
    /\ tasks[t].pc = "done" /\ tasks[t].sig
    /\ tasks[t].ev.type \notin HandledTypes(build)
    /\ matching(users, tasks[t].ev.customer) # {}
    /\ tasks[t].res = Received

\* C6: a created/updated event whose customer matches no user record is
\* answered with a client error whose code tells it from a signature
\* failure (UserNotFound), and the store is left as it was.
C6_UserNotFound ==
  \A t \in Tasks :
    (/\ tasks[t].pc = "done" /\ tasks[t].sig
     /\ IsKind(t, SubscriptionTypes)
     /\ tasks[t].ops = <<"query">>)
    => /\ tasks[t].res.status \in 400..499
       /\ tasks[t].res.code # catchResponse(build, SignatureMessage).code
       /\ handle(build, users, deliveryOf(t)).users = users

\* C7: a delivery whose signature check fails issues no store operation
\* and is answered 400 with an error code; a task that has issued a store
\* operation has passed the signature check.
C7_SignatureFirst ==
  \A t \in Tasks :
    /\ (tasks[t].pc # "idle" /\ ~tasks[t].sig)
         => /\ tasks[t].ops = <<>>
            /\ tasks[t].pc = "done"
            /\ tasks[t].res.status = 400
            /\ tasks[t].res.code # ""
    /\ tasks[t].ops # <<>> => tasks[t].sig

\* C7 witness: a rejected delivery of an event that, verified, would have
\* found and changed a user record.
C7_Witness ==
  \E t \in Tasks :
    /\ tasks[t].pc = "done" /\ ~tasks[t].sig
    /\ tasks[t].res.status = 400
    /\ IsKind(t, SubscriptionTypes)
    /\ handle(build, users, [ev |-> tasks[t].ev, sig |-> TRUE]).users # users

\* C8: after a subscription deleted event has been applied to the matched
\* record, the record has plan 'free' and no subscription.
C8_DeletedDowngrades ==
  \A t \in Tasks :
    IsKind(t, DeletedType) /\ Applied(t) =>
      /\ users[tasks[t].userId].plan = "free"
      /\ users[tasks[t].userId].subscription = {}

\* C8 witness: the record was 'pro' with a subscription when it was read.
C8_Witness ==
  \E t \in Tasks :
    /\ IsKind(t, DeletedType) /\ Applied(t)
    /\ tasks[t].currentUserData.plan = "pro"
    /\ tasks[t].currentUserData.subscription # {}
    /\ users[tasks[t].userId].plan = "free"

\* C9: a payment failed event whose billing reason is subscription_create
\* and whose customer matches a record leaves that record with plan 'free'
\* and no subscription; with any other billing reason it issues no store
\* operation, changes nothing and is answered {received: true}.
C9_TrialFailureOnly ==
  /\ \A t \in Tasks :
       (tasks[t].pc # "idle" /\ tasks[t].sig /\ IsKind(t, FailedType)) =>
         IF tasks[t].ev.billing_reason = "subscription_create"
         THEN (tasks[t].pc = "done" /\ tasks[t].userId # NULL)
                => /\ Has(tasks[t].ops, "update")
                   /\ tasks[t].res = Received
                   /\ users[tasks[t].userId].plan = "free"
                   /\ users[tasks[t].userId].subscription = {}
         ELSE /\ tasks[t].ops = <<>>
              /\ tasks[t].pc = "done"
              /\ tasks[t].res = Received
  /\ \A d \in Deliveries :
       (/\ d.sig /\ d.ev.type \in FailedType \cap HandledTypes(build)
        /\ d.ev.billing_reason # "subscription_create")
       => handle(build, users, d).users = users

\* C9 witness: a trial payment failure has downgraded a record that was
\* 'pro', and in that store a failure with another reason changes nothing.
C9_Witness ==
  /\ \E t \in Tasks :
       /\ IsKind(t, FailedType) /\ tasks[t].pc = "done"
       /\ tasks[t].ev.billing_reason = "subscription_create"
       /\ tasks[t].currentUserData.plan = "pro"
       /\ tasks[t].currentUserData.subscription # {}
       /\ users[tasks[t].userId].plan = "free"
  /\ \E d \in Deliveries :
       /\ d.sig /\ d.ev.type \in FailedType \cap HandledTypes(build)
       /\ d.ev.billing_reason # "subscription_create"
       /\ matching(users, d.ev.customer) # {}

\* C10: each write of an invoice paid event sets invoices[invoiceId] of the
\* matched record to the event's invoice fields and changes nothing else:
\* not plan, not subscription, not another invoice, not another record.
C10_InvoiceUpsert ==
  [][\A t \in Tasks :
       (tasks[t].pc \in {"set1", "set2"} /\ tasks'[t].pc # tasks[t].pc)
         => users' = [users EXCEPT ![tasks[t].userId].invoices[tasks[t].ev.id] =
                         {invoiceDataOf(tasks[t].ev)}]]_vars

\* C10 witness: the invoice has been written into a 'pro' record that
\* holds a subscription and another invoice.
C10_Witness ==
  \E t \in Tasks :
    /\ IsKind(t, PaidType) /\ tasks[t].pc = "respond"
    /\ users[tasks[t].userId].invoices[tasks[t].ev.id] = {invoiceDataOf(tasks[t].ev)}
    /\ users[tasks[t].userId].plan = "pro"
    /\ users[tasks[t].userId].subscription # {}
    /\ \E i \in InvoiceIds \ {tasks[t].ev.id} :
         users[tasks[t].userId].invoices[i] # {}

\* C11: a subscription deleted, invoice paid or invoice payment failed
\* event whose customer matches no user record changes nothing in the
\* store and is answered {received: true}, not with an error.
C11_SoftMiss ==
  /\ \A t \in Tasks :
       (/\ tasks[t].pc = "done" /\ tasks[t].sig
        /\ IsKind(t, DeletedType \cup PaidType \cup FailedType)
        /\ matching(users, tasks[t].ev.customer) = {}
        /\ Has(tasks[t].ops, "query"))
       => /\ tasks[t].ops = <<"query">>
          /\ tasks[t].res = Received
  /\ \A d \in Deliveries :
       (/\ d.sig
        /\ d.ev.type \in (DeletedType \cup PaidType \cup FailedType)
                            \cap HandledTypes(build)
        /\ matching(users, d.ev.customer) = {})
       => /\ handle(build, users, d).users = users
          /\ handle(build, users, d).task.res = Received

\* C11 witness: the lookup of an invoice paid event has missed while the
\* store holds a 'pro' record of another customer, and was acknowledged.
C11_Witness ==
  \E t \in Tasks :
    /\ tasks[t].pc = "done" /\ tasks[t].sig
    /\ IsKind(t, PaidType)
    /\ tasks[t].ops = <<"query">>
    /\ matching(users, tasks[t].ev.customer) = {}
    /\ tasks[t].res = Received
    /\ \E u \in UserIds : users[u].plan = "pro"

\* C12: with webhook handlers interleaved, an invoice that is stored stays
\* stored: no step takes an existing invoices[invoiceId] away, also not
\* the write of a handler that read the record before the invoice was set.
C12_InvoicesAppendOnly ==
  [][\A u \in UserIds : \A i \in InvoiceIds :
       users[u].invoices[i] # {} => users'[u].invoices[i] # {}]_vars

\* C13: when another writer has changed a field other than plan,
\* subscription and invoices after a handler read the record, the
\* handler's write leaves that field as the other writer set it.
C13_NoStaleWriteBack ==
  [][\A t \in Tasks :
       (tasks[t].pc = "update" /\ tasks'[t].pc = "respond") =>
         \A f \in AllFields \ BillingFields :
           users[tasks[t].userId][f] # tasks[t].currentUserData[f]
             => users'[tasks[t].userId][f] = users[tasks[t].userId][f]]_vars

\* C14: a created/updated event without a first line item, for a customer
\* that matches a record, is answered with a client error whose code tells
\* it from a signature failure (MalformedEvent), and the matched record is
\* left as it was.
C14_MalformedEvent ==
  \A t \in Tasks :
    (/\ tasks[t].pc = "done" /\ tasks[t].sig
     /\ IsKind(t, SubscriptionTypes)
     /\ tasks[t].ev.items = <<>>
     /\ tasks[t].userId # NULL)
    => /\ tasks[t].res.status \in 400..499
       /\ tasks[t].res.code # catchResponse(build, SignatureMessage).code
       /\ users[tasks[t].userId] = tasks[t].currentUserData

ServerErrors == 500..599

\* C15: a verified event during whose handling a store operation was
\* rejected is answered with a 5xx status, never with {received: true}
\* and never with the 4xx of a signature, malformed-event or
\* user-not-found failure.
C15_StoreFailureIs5xx ==
  \A t \in Tasks :
    (tasks[t].pc = "done" /\ Has(tasks[t].ops, "failed"))
      => /\ tasks[t].res.status \in ServerErrors
         /\ tasks[t].res # Received

\* C16: every delivery is answered, and answered once: a task that has
\* been received reaches its end, at its end exactly one response has been
\* sent, {received: true} or an error status with a code, and before its
\* end none has been sent.
C16_OneResponse ==
  /\ [](\A t \in Tasks :
         /\ tasks[t].pc = "done" =>
              /\ tasks[t].sent = 1
              /\ \/ tasks[t].res = Received
                 \/ tasks[t].res.status >= 400 /\ tasks[t].res.code # ""
         /\ tasks[t].pc # "done" => tasks[t].sent = 0 /\ tasks[t].res = NoResponse)
  /\ \A t \in Tasks : (tasks[t].pc # "idle") ~> (tasks[t].pc = "done")

\* C16 witness: a delivery whose second invoice write was rejected, after
\* the first had been stored, has been answered once.
C16_Witness ==
  \E t \in Tasks :
    /\ tasks[t].pc = "done" /\ tasks[t].sent = 1
    /\ Has(tasks[t].ops, "set") /\ Has(tasks[t].ops, "failed")

\* C17: with checkout-session creations and webhook handlers interleaved,
\* no two user records hold the same customer id.
C17_CustomerIdUnique ==
  \A u \in UserIds : \A v \in UserIds \ {u} :
    users[u].stripeCustomerId # NULL
      => users[u].stripeCustomerId # users[v].stripeCustomerId

\* C17 witness: two records hold customer ids that checkouts assigned, and
\* a webhook handler has written to one of them since.
C17_Witness ==
  /\ \A u \in {"u1", "u2"} : users[u].stripeCustomerId # NULL
  /\ \E t \in Tasks : Applied(t)

\* C18: no step of a webhook handler creates a user record or changes the
\* customer id of a user record, whatever the event and its outcome.
C18_HandlerFrame ==
  [][tasks' # tasks =>
       \A u \in UserIds :
         /\ users'[u].stripeCustomerId = users[u].stripeCustomerId
         /\ users[u] = NullRecord => users'[u] = NullRecord]_vars

\* A store in which nobody has bought anything yet.
FreshStore ==
  [u \in UserIds |->
     IF u = "u1" THEN NewUser("u1", "Ann", "cus_1")
     ELSE IF u = "u2" THEN NewUser("u2", "Bob", "cus_2")
     ELSE NullRecord]

\* C19: what a created/updated event leaves in plan and subscription
\* depends on the event alone: applied to the record of any reachable
\* store and to a record that never had a subscription, it leaves the same
\* plan and the same subscription, which is exactly the six fields taken
\* from the event.
C19_EventAlone ==
  \A d \in Deliveries :
    (d.sig /\ d.ev.type \in SubscriptionTypes) =>
      LET a == handle(build, users, d)
          f == handle(build, FreshStore, d)
          u == a.task.userId
      IN (/\ Has(a.task.ops, "update") /\ Has(f.task.ops, "update")
          /\ f.task.userId = u)
         => /\ a.users[u].subscription = {subscriptionOf(d.ev)}
            /\ a.users[u].subscription = f.users[u].subscription
            /\ a.users[u].plan = f.users[u].plan

\* C19 witness: the record is 'pro' with a subscription, and an event with
\* another status, applied to it, leaves what it leaves in a fresh record.
C19_Witness ==
  \E d \in Deliveries :
    /\ d.sig /\ d.ev.type \in SubscriptionTypes /\ d.ev.status = "canceled"
    /\ users["u1"].plan = "pro"
    /\ users["u1"].subscription # {}
    /\ Has(handle(build, users, d).task.ops, "update")
    /\ handle(build, users, d).users["u1"].plan = "free"
    /\ handle(build, users, d).users["u1"].subscription
         = handle(build, FreshStore, d).users["u1"].subscription

\* C20: with webhook handlers interleaved, every user record that starts
\* 'free' without a subscription is 'pro' only while it holds a
\* subscription whose status is 'active' or 'trialing', and is 'free'
\* whenever it holds none; and every step that changes plan or
\* subscription is one update that names both.
C20_PlanMatchesSubscription ==
  /\ [](\A u \in UserIds :
         users[u] # NullRecord =>
           /\ users[u].plan = "pro" =>
                \E sub \in users[u].subscription : sub.status \in ProStatuses
           /\ users[u].subscription = {} => users[u].plan = "free")
  /\ [][\A u \in UserIds :
         (\/ users'[u].plan # users[u].plan
          \/ users'[u].subscription # users[u].subscription)
         => \E t \in Tasks :
              /\ tasks[t].pc = "update" /\ tasks'[t].pc = "respond"
              /\ tasks[t].userId = u
              /\ {"plan", "subscription"} \subseteq
                   valuesFor(build, tasks[t].ev, tasks[t].currentUserData).keys]_vars

\* C20 witness: a deleted event's handler read the record while it was
\* 'free', an upsert has made it 'pro' since, and the deleted handler's
\* write is still to come.
C20_Witness ==
  \E t \in Tasks : \E o \in Tasks \ {t} :
    /\ IsKind(t, DeletedType \cup FailedType) /\ tasks[t].pc = "update"
    /\ tasks[t].currentUserData.plan = "free"
    /\ IsKind(o, SubscriptionTypes) /\ Applied(o)
    /\ tasks[o].userId = tasks[t].userId
    /\ users[tasks[t].userId].plan = "pro"

\* C21: every step of a webhook handler leaves every user record other
\* than the first key of the query's result as it is, also when several
\* records hold the event's customer id; that first key is the one record
\* the handler reads and writes.
C21_OneRecord ==
  [][\A t \in Tasks :
       tasks'[t] # tasks[t] =>
         /\ tasks'[t].userId # NULL =>
              \E i \in 1..Len(UserKeys) :
                /\ UserKeys[i] = tasks'[t].userId
                /\ users[UserKeys[i]].stripeCustomerId = tasks'[t].ev.customer
                /\ \A j \in 1..(i - 1) :
                     users[UserKeys[j]].stripeCustomerId # tasks'[t].ev.customer
         /\ \A u \in UserIds \ {tasks[t].userId} : users'[u] = users[u]]_vars

\* C21 witness: two records hold the event's customer id; the first has
\* been changed by the handler and the second is as it was created.
C21_Witness ==
  \E t \in Tasks :
    /\ Applied(t)
    /\ Cardinality(matching(users, tasks[t].ev.customer)) = 2
    /\ tasks[t].userId = "u1"
    /\ users["u1"] # tasks[t].currentUserData
    /\ users["u2"] = NewUser("u2", "Bob", "cus_1")

\* C22: the body that constructEvent is handed for a /webhooks/stripe
\* request is the request's raw bytes: no JSON body parser has read it
\* before the route's express.raw() and handler run.
C22_RawBody ==
  \A t \in Tasks : tasks[t].pc # "idle" => tasks[t].body = "raw"

\* The handler has issued a write that the database accepted.
Wrote(t) ==
  IF IsKind(t, PaidType) THEN Has(tasks[t].ops, "set")
  ELSE Has(tasks[t].ops, "update")

\* C23: a delivery that found a user record and has been answered
\* {received: true} had its write accepted by the database before the
\* answer, and with deliveries handled one at a time the record holds the
\* event's change when the answer is sent.
C23_WriteBeforeAck ==
  \A t \in Tasks :
    (/\ tasks[t].pc = "done" /\ tasks[t].res = Received
     /\ tasks[t].userId # NULL)
    => /\ Wrote(t)
       /\ IsKind(t, PaidType) =>
            users[tasks[t].userId].invoices[tasks[t].ev.id]
              = {invoiceDataOf(tasks[t].ev)}
       /\ IsKind(t, SubscriptionTypes) =>
            users[tasks[t].userId].subscription = {subscriptionOf(tasks[t].ev)}
       /\ IsKind(t, DeletedType \cup FailedType) =>
            /\ users[tasks[t].userId].plan = "free"
            /\ users[tasks[t].userId].subscription = {}

\* C23 witness: an acknowledged created/updated event whose record now
\* differs from what the handler read.
C23_Witness ==
  \E t \in Tasks :
    /\ tasks[t].pc = "done" /\ tasks[t].res = Received
    /\ IsKind(t, SubscriptionTypes)
    /\ tasks[t].userId # NULL
    /\ tasks[t].currentUserData.subscription = {}
    /\ users[tasks[t].userId].subscription # {}

\* C24: a customer id that a user record holds is never replaced by
\* another: no step changes a stripeCustomerId that is set, also not when
\* two checkout requests for one user both read the record before either
\* writes.
C24_CustomerIdKept ==
  [][\A u \in UserIds :
       users[u].stripeCustomerId # NULL
         => users'[u].stripeCustomerId = users[u].stripeCustomerId]_vars

====
